---- MODULE Spec2Model ----
(***************************************************************************)
(* Model of flaquerhub/app:                                                *)
(*   src/pdf_splitter.py        detect / segment / filter / group / save   *)
(*   src/salvar_e_continuar.py  validate-and-save step of the translation  *)
(*                              workflow                                   *)
(* Strings are sequences of one-character strings; offsets are 0-based as  *)
(* in the Python source (Slice(s, a, b) is s[a:b]).                        *)
(***************************************************************************)
EXTENDS Integers, Sequences, FiniteSets, TLC

VARIABLES
  pc,              \* position of the running script
  pdf_path,        \* process_pdf argument
  fs_pdf,          \* the source document on disk: "missing", "corrupt", "ok"
  max_chars,       \* process_pdf / split_blocks_by_size argument
  text,            \* extracted text
  book_name,       \* detected book name
  all_blocks,      \* result of split_into_blocks
  filtered_blocks, \* blocks kept by the filter loop (input of the grouper)
  skipped_count,   \* blocks dropped by the filter loop
  next_block,      \* 0-based index of the grouper's loop over blocks
  current_group,   \* split_blocks_by_size local
  current_size,    \* split_blocks_by_size local
  result,          \* split_blocks_by_size local / groups
  next_file,       \* 1-based index of save_split_files' loop
  dir_exists,      \* output_dir exists on disk
  mkdir_calls,     \* number of output_path.mkdir calls
  out_files,       \* output directory: file name -> content
  write_log,       \* names passed to open(..., 'w'), in order
  exit_code,       \* -1 while running, else the process exit status
  numero,          \* salvar_e_continuar: item number
  json_content,    \* salvar_e_continuar: content handed over
  traducoes,       \* traducoes/ directory: file name -> content
  commits,         \* git commits made (messages' block numbers)
  invoked          \* number of runs of tradutor_automatico.py

vars == <<pc, pdf_path, fs_pdf, max_chars, text, book_name, all_blocks,
          filtered_blocks, skipped_count, next_block, current_group,
          current_size, result, next_file, dir_exists, mkdir_calls,
          out_files, write_log, exit_code, numero, json_content, traducoes,
          commits, invoked>>

pdfVars == <<pdf_path, fs_pdf, max_chars, text, book_name, all_blocks,
             filtered_blocks, skipped_count, next_block, current_group,
             current_size, result, next_file, dir_exists, mkdir_calls,
             out_files, write_log>>

salvarVars == <<numero, json_content, traducoes, commits, invoked>>

----------------------------------------------------------------------------
(* Strings and characters *)

Slice(s, a, b) == SubSeq(s, a + 1, b)

Min(a, b) == IF a < b THEN a ELSE b

Whitespace == {" ", "\t", "\n", "\r", "\f"}

Digits == {"0", "1", "2", "3", "4", "5", "6", "7", "8", "9"}

UpperCase ==
  <<"A","B","C","D","E","F","G","H","I","J","K","L","M","N","O","P","Q","R",
    "S","T","U","V","W","X","Y","Z","Á","É","Í","Ó","Ú","Ñ">>

LowerCase ==
  <<"a","b","c","d","e","f","g","h","i","j","k","l","m","n","o","p","q","r",
    "s","t","u","v","w","x","y","z","á","é","í","ó","ú","ñ">>

Range(s) == {s[i] : i \in DOMAIN s}

\* [A-Za-zÁÉÍÓÚáéíóúñÑ]
BookLetters == Range(UpperCase) \cup Range(LowerCase)

\* the two case variants of a character (re.IGNORECASE)
IgnoreCase(c) ==
  {c} \cup {LowerCase[i] : i \in {j \in DOMAIN UpperCase : UpperCase[j] = c}}
      \cup {UpperCase[i] : i \in {j \in DOMAIN LowerCase : LowerCase[j] = c}}

\* the lower-case letter of every upper-case letter
LowerOf ==
  [c \in Range(UpperCase) |->
     LowerCase[CHOOSE j \in DOMAIN UpperCase : UpperCase[j] = c]]

LowerChar(c) == IF c \in DOMAIN LowerOf THEN LowerOf[c] ELSE c

\* str.lower()
Lower(s) == [i \in DOMAIN s |-> LowerChar(s[i])]

RECURSIVE LStrip(_)
LStrip(s) ==
  IF s # <<>> /\ Head(s) \in Whitespace THEN LStrip(Tail(s)) ELSE s

RECURSIVE RStrip(_)
RStrip(s) ==
  IF s # <<>> /\ s[Len(s)] \in Whitespace
    THEN RStrip(SubSeq(s, 1, Len(s) - 1)) ELSE s

\* str.strip()
Strip(s) == RStrip(LStrip(s))

RECURSIVE Join(_, _)
\* sep.join(parts)
Join(sep, parts) ==
  IF parts = <<>> THEN <<>>
  ELSE IF Len(parts) = 1 THEN parts[1]
  ELSE parts[1] \o sep \o Join(sep, Tail(parts))

RECURSIVE Decimal(_)
\* str(n) for n >= 0
Decimal(n) ==
  LET d == <<"0","1","2","3","4","5","6","7","8","9">>[(n % 10) + 1]
  IN IF n < 10 THEN <<d>> ELSE Decimal(n \div 10) \o <<d>>

----------------------------------------------------------------------------
(* Regular expressions: a pattern is a sequence of elements, matched by    *)
(* greedy backtracking as Python's re does.                                *)

Lit(c)    == [kind |-> "cls", cls |-> {c}, lo |-> 1, many |-> FALSE]
One(S)    == [kind |-> "cls", cls |-> S, lo |-> 1, many |-> FALSE]
Maybe(S)  == [kind |-> "cls", cls |-> S, lo |-> 0, many |-> FALSE]
Star(S)   == [kind |-> "cls", cls |-> S, lo |-> 0, many |-> TRUE]
Plus(S)   == [kind |-> "cls", cls |-> S, lo |-> 1, many |-> TRUE]
GroupEnd  == [kind |-> "mark"]
Optional(sub) == [kind |-> "opt", sub |-> sub]

\* a literal string (re.escape)
Literal(s) == [i \in DOMAIN s |-> Lit(s[i])]

\* a literal string under re.IGNORECASE
LiteralIgnoreCase(s) == [i \in DOMAIN s |-> One(IgnoreCase(s[i]))]

NoMatch == <<>>

RECURSIVE Run(_, _, _)
\* how many consecutive characters of class S start at offset p
Run(s, p, S) ==
  IF p < Len(s) /\ s[p + 1] \in S THEN 1 + Run(s, p + 1, S) ELSE 0

RECURSIVE MatchFrom(_, _, _)
RECURSIVE TryCount(_, _, _, _)
\* match pat at offset p: NoMatch, or the offsets of the group ends passed
\* followed by the end offset of the match
MatchFrom(pat, s, p) ==
  IF Len(pat) = 0 THEN <<p>>
  ELSE LET e == Head(pat)
           rest == Tail(pat)
       IN CASE e.kind = "mark" ->
                 LET r == MatchFrom(rest, s, p)
                 IN IF r = NoMatch THEN NoMatch ELSE <<p>> \o r
            [] e.kind = "opt" ->
                 LET r == MatchFrom(e.sub \o rest, s, p)
                 IN IF r # NoMatch THEN r ELSE MatchFrom(rest, s, p)
            [] OTHER ->
                 TryCount(pat, s, p,
                          IF e.many THEN Run(s, p, e.cls)
                                    ELSE Min(1, Run(s, p, e.cls)))

\* the greedy quantifier: n repetitions first, then fewer
TryCount(pat, s, p, n) ==
  IF n < Head(pat).lo THEN NoMatch
  ELSE LET r == MatchFrom(Tail(pat), s, p + n)
       IN IF r # NoMatch THEN r ELSE TryCount(pat, s, p, n - 1)

RECURSIVE FindIter(_, _, _)
\* re.finditer from offset pos: the non-overlapping matches, left to right
FindIter(pat, s, pos) ==
  IF pos > Len(s) THEN <<>>
  ELSE LET r == MatchFrom(pat, s, pos)
       IN IF r = NoMatch THEN FindIter(pat, s, pos + 1)
          ELSE LET end == r[Len(r)]
               IN <<[start |-> pos, end |-> end, marks |-> r]>>
                  \o FindIter(pat, s, IF end > pos THEN end ELSE pos + 1)

\* re.search(...) is not None
Search(pat, s) == \E p \in 0..Len(s) : MatchFrom(pat, s, p) # NoMatch

----------------------------------------------------------------------------
(* src/pdf_splitter.py: the pure stages *)

\* r'([1-3]?\s*[A-Za-zÁÉÍÓÚáéíóúñÑ]+)\s+\d+:\d+'
DetectPattern ==
  <<Maybe({"1", "2", "3"}), Star(Whitespace), Plus(BookLetters), GroupEnd,
    Plus(Whitespace), Plus(Digits), Lit(":"), Plus(Digits)>>

\* the fallback book name
Libro == <<"L", "i", "b", "r", "o">>

\* re.findall(pattern, text): group 1 of every match
DetectMatches(t) ==
  LET ms == FindIter(DetectPattern, t, 0)
  IN [i \in DOMAIN ms |-> Slice(t, ms[i].start, ms[i].marks[1])]

\* a variant that takes the last match instead of the first
detect_book_name_last(t) ==
  LET matches == DetectMatches(t)
  IN IF matches # <<>> THEN Strip(matches[Len(matches)]) ELSE Libro

detect_book_name(t) ==
  LET matches == DetectMatches(t)
  IN IF matches # <<>> THEN Strip(matches[1]) ELSE Libro

\* a variant whose pattern allows no whitespace after the book name (\s*)
ReferencePatternNoSpace(book) ==
  Literal(book) \o
  <<Star(Whitespace), Plus(Digits), Lit(":"), Plus(Digits),
    Optional(<<Lit("-"), Plus(Digits)>>)>>

\* rf'{re.escape(book_name)}\s+\d+:\d+(?:-\d+)?'
ReferencePattern(book) ==
  Literal(book) \o
  <<Plus(Whitespace), Plus(Digits), Lit(":"), Plus(Digits),
    Optional(<<Lit("-"), Plus(Digits)>>)>>

\* list(re.finditer(pattern, text))
ReferenceMatches(t, book) == FindIter(ReferencePattern(book), t, 0)

\* a variant that ends every block at the end of its own reference
BlockSpansToMatchEnd(t, book) ==
  LET matches == ReferenceMatches(t, book)
  IN [i \in DOMAIN matches |->
        [start_pos |-> matches[i].start, end_pos |-> matches[i].end]]

\* (start_pos, end_pos) of every block: from a reference to the next one,
\* or to the end of the text
BlockSpans(t, book) ==
  LET matches == ReferenceMatches(t, book)
  IN [i \in DOMAIN matches |->
        [start_pos |-> matches[i].start,
         end_pos |-> IF i - 1 < Len(matches) - 1
                       THEN matches[i + 1].start
                       ELSE Len(t)]]

split_into_blocks(t, book) ==
  LET matches == ReferenceMatches(t, book)
      spans == BlockSpans(t, book)
  IN [i \in DOMAIN matches |->
        <<Slice(t, matches[i].start, matches[i].end),
          Strip(Slice(t, spans[i].start_pos, spans[i].end_pos))>>]

\* r'Descripci[oó]n\s+general', r'Introducci[oó]n\s+general', re.IGNORECASE
SkipPatterns ==
  LET o == <<One(IgnoreCase("o") \cup IgnoreCase("ó"))>>
      tail == o \o LiteralIgnoreCase(<<"n">>) \o <<Plus(Whitespace)>>
              \o LiteralIgnoreCase(<<"g","e","n","e","r","a","l">>)
  IN <<LiteralIgnoreCase(<<"D","e","s","c","r","i","p","c","i">>) \o tail,
       LiteralIgnoreCase(<<"I","n","t","r","o","d","u","c","c","i">>) \o tail>>

\* a variant that tries only the first pattern
should_skip_block_first(block_content) ==
  Search(SkipPatterns[1], block_content)

should_skip_block(block_content) ==
  \E k \in DOMAIN SkipPatterns : Search(SkipPatterns[k], block_content)

RECURSIVE FilterLoop(_, _)
\* the filter loop of process_pdf over blocks: <<filtered_blocks, skipped_count>>
FilterLoop(blocks, acc) ==
  IF blocks = <<>> THEN acc
  ELSE IF should_skip_block(Head(blocks)[2])
         THEN FilterLoop(Tail(blocks), <<acc[1], acc[2] + 1>>)
         ELSE FilterLoop(Tail(blocks), <<Append(acc[1], Head(blocks)), acc[2]>>)

\* Path(p).suffix: from the last dot of the name, unless the name starts or
\* ends with it
Suffix(p) ==
  LET dots == {i \in DOMAIN p : p[i] = "."}
  IN IF dots = {} THEN <<>>
     ELSE LET i == CHOOSE d \in dots : \A e \in dots : e <= d
          IN IF i > 1 /\ i < Len(p) THEN SubSeq(p, i, Len(p)) ELSE <<>>

\* Path(p).stem
Stem(p) == SubSeq(p, 1, Len(p) - Len(Suffix(p)))

\* a variant that numbers the files from 0
OutputNameFromZero(original_filename, i) ==
  original_filename \o <<"_">> \o Decimal(i - 1) \o <<".", "t", "x", "t">>

\* f"{original_filename}_{i}.txt"
OutputName(original_filename, i) ==
  original_filename \o <<"_">> \o Decimal(i) \o <<".", "t", "x", "t">>

\* "\n\n".join([block_content for _, block_content in group])
GroupContent(group) ==
  Join(<<"\n", "\n">>, [k \in DOMAIN group |-> group[k][2]])

\* open(name, 'w').write(content) in a directory
WriteFile(dir, name, content) ==
  [n \in DOMAIN dir \cup {name} |-> IF n = name THEN content ELSE dir[n]]

NoFiles == [n \in {} |-> <<>>]

----------------------------------------------------------------------------
(* Bounds and inputs *)

MaxPages == 3

MaxBlocks == 4

MaxBlockLen == 3

MaxChars == 7

SmallMaxChars == 12

MaxFilterBlocks == 2

DefaultMaxChars == 15000

RECURSIVE Concat(_)
Concat(ss) == IF ss = <<>> THEN <<>> ELSE Head(ss) \o Concat(Tail(ss))

\* what one page of a document may hold
Pages ==
  { <<"J", "n", " ", "1", ":", "1">>,
    <<"2", " ">>,
    <<" ">>,
    <<"-", "3">>,
    <<"t">>,
    Libro,
    <<"1", ":", "2">>,
    <<"I","n","t","r","o","d","u","c","c","i","ó","n"," ",
      "g","e","n","e","r","a","l">> }

PdfPaths ==
  { <<"a", ".", "p", "d", "f">>, <<"a", ".", "P", "D", "F">>,
    <<"a", ".", "t", "x", "t">> }

\* the k-th block of a grouper input: a reference and n characters of content
Block(k, n) ==
  <<(<<"J", "n", " ", "1", ":">> \o Decimal(k)), [j \in 1..n |-> "x"]>>

\* the grouper input of n blocks with the given Content lengths
BlocksOfLengths(lens) == [k \in DOMAIN lens |-> Block(k, lens[k])]

\* block contents for the filter: a reference, a word, a separator, a tail
FilterContents ==
  { <<"J", "n", " ", "1", ":", "1", " ">> \o w \o sep \o tl :
      w \in { <<"D","e","s","c","r","i","p","c","i","ó","n">>,
              <<"D","E","S","C","R","I","P","C","I","O","N">>,
              <<"i","n","t","r","o","d","u","c","c","i","Ó","n">>,
              <<"D","e","s","c","r","i","p","c","i","n">> },
      sep \in { <<>>, <<" ">>, <<"\n">>, <<" ", "\t">> },
      tl \in { <<"g","e","n","e","r","a","l">>,
               <<"G","E","N","E","R","A","L","."  >>,
               <<"g","e","n","e","r","a">> } }

\* the filter input with the given Contents
BlocksOfContents(cs) ==
  [k \in DOMAIN cs |-> <<(<<"J", "n", " ", "1", ":">> \o Decimal(k)), cs[k]>>]

----------------------------------------------------------------------------
(* process_pdf *)

SalvarIdle ==
  /\ numero = 0
  /\ json_content = <<>>
  /\ traducoes = NoFiles
  /\ commits = <<>>
  /\ invoked = 0

\* the locals of process_pdf before it has run a stage
PdfLocalsInit ==
  /\ text = <<>>
  /\ book_name = <<>>
  /\ all_blocks = <<>>
  /\ filtered_blocks = <<>>
  /\ skipped_count = 0
  /\ next_block = 0
  /\ current_group = <<>>
  /\ current_size = 0
  /\ result = <<>>
  /\ next_file = 0
  /\ mkdir_calls = 0
  /\ out_files = NoFiles
  /\ write_log = <<>>
  /\ exit_code = -1

Init ==
  /\ pc = "start"
  /\ pdf_path \in PdfPaths
  /\ fs_pdf \in {"missing", "corrupt", "ok"}
  /\ max_chars \in {SmallMaxChars, DefaultMaxChars}
  /\ dir_exists \in BOOLEAN
  /\ PdfLocalsInit
  /\ SalvarIdle

Exit(code) ==
  /\ pc' = "exit"
  /\ exit_code' = code

\* if not pdf_file.exists(): sys.exit(1)
FileNotFound ==
  /\ pc = "start"
  /\ fs_pdf = "missing"
  /\ Exit(1)
  /\ UNCHANGED <<pdfVars, salvarVars>>

\* if not pdf_file.suffix.lower() == '.pdf': sys.exit(1)
NotAPdf ==
  /\ pc = "start"
  /\ fs_pdf # "missing"
  /\ Lower(Suffix(pdf_path)) # <<".", "p", "d", "f">>
  /\ Exit(1)
  /\ UNCHANGED <<pdfVars, salvarVars>>

\* extract_text_from_pdf: any exception ends the run
ExtractFails ==
  /\ pc = "start"
  /\ fs_pdf = "corrupt"
  /\ Lower(Suffix(pdf_path)) = <<".", "p", "d", "f">>
  /\ Exit(1)
  /\ UNCHANGED <<pdfVars, salvarVars>>

\* extract_text_from_pdf: the pages' texts, concatenated in page order
ExtractText ==
  /\ pc = "start"
  /\ fs_pdf = "ok"
  /\ Lower(Suffix(pdf_path)) = <<".", "p", "d", "f">>
  /\ \E n \in 0..MaxPages : \E pages \in [1..n -> Pages] :
       text' = Concat(pages)
  /\ pc' = "detect"
  /\ UNCHANGED <<pdf_path, fs_pdf, max_chars, book_name, all_blocks,
                 filtered_blocks, skipped_count, next_block, current_group,
                 current_size, result, next_file, dir_exists, mkdir_calls,
                 out_files, write_log, exit_code, salvarVars>>

DetectBookName ==
  /\ pc = "detect"
  /\ book_name' = detect_book_name(text)
  /\ pc' = "segment"
  /\ UNCHANGED <<pdf_path, fs_pdf, max_chars, text, all_blocks,
                 filtered_blocks, skipped_count, next_block, current_group,
                 current_size, result, next_file, dir_exists, mkdir_calls,
                 out_files, write_log, exit_code, salvarVars>>

SplitIntoBlocks ==
  /\ pc = "segment"
  /\ all_blocks' = split_into_blocks(text, book_name)
  /\ pc' = "filter"
  /\ UNCHANGED <<pdf_path, fs_pdf, max_chars, text, book_name,
                 filtered_blocks, skipped_count, next_block, current_group,
                 current_size, result, next_file, dir_exists, mkdir_calls,
                 out_files, write_log, exit_code, salvarVars>>

\* the filter loop
FilterBlocks ==
  /\ pc = "filter"
  /\ LET r == FilterLoop(all_blocks, <<<<>>, 0>>)
     IN /\ filtered_blocks' = r[1]
        /\ skipped_count' = r[2]
  /\ pc' = "filtered"
  /\ UNCHANGED <<pdf_path, fs_pdf, max_chars, text, book_name, all_blocks,
                 next_block, current_group, current_size, result, next_file,
                 dir_exists, mkdir_calls, out_files, write_log, exit_code,
                 salvarVars>>

\* a variant that goes on to group and save an empty block list
NoValidBlocksGoesOn ==
  /\ pc = "filtered"
  /\ filtered_blocks = <<>>
  /\ pc' = "group"
  /\ UNCHANGED <<pdfVars, exit_code, salvarVars>>

\* if not filtered_blocks: sys.exit(1)
NoValidBlocks ==
  /\ pc = "filtered"
  /\ filtered_blocks = <<>>
  /\ Exit(1)
  /\ UNCHANGED <<pdfVars, salvarVars>>

\* groups = split_blocks_by_size(filtered_blocks, max_chars): entry
StartGrouping ==
  /\ pc = "filtered"
  /\ filtered_blocks # <<>>
  /\ result' = <<>>
  /\ current_group' = <<>>
  /\ current_size' = 0
  /\ next_block' = 0
  /\ pc' = "group"
  /\ UNCHANGED <<pdf_path, fs_pdf, max_chars, text, book_name, all_blocks,
                 filtered_blocks, skipped_count, next_file, dir_exists,
                 mkdir_calls, out_files, write_log, exit_code, salvarVars>>

\* a variant that closes the group without looking whether it holds a block
NeedsNewGroupAnyGroup(size, block_size, limit, group) ==
  size + block_size > limit

\* a variant that closes the group when the block would fill it exactly
NeedsNewGroupAtLimit(size, block_size, limit, group) ==
  size + block_size >= limit /\ group # <<>>

\* if current_size + block_size > max_chars and current_group
NeedsNewGroup(size, block_size, limit, group) ==
  size + block_size > limit /\ group # <<>>

\* a variant that forgets the group still open after the loop
FinalResultDropsLast(groups, group) == groups

\* if current_group: result.append(current_group)
FinalResult(groups, group) ==
  IF group # <<>> THEN Append(groups, group) ELSE groups

\* the loop's if branch: save the current group and start a new one
GroupCloseAndStart ==
  /\ pc = "group"
  /\ next_block < Len(filtered_blocks)
  /\ LET block == filtered_blocks[next_block + 1]
         block_size == Len(block[2])
     IN /\ NeedsNewGroup(current_size, block_size, max_chars, current_group)
        /\ result' = Append(result, current_group)
        /\ current_group' = <<block>>
        /\ current_size' = block_size
  /\ next_block' = next_block + 1
  /\ UNCHANGED <<pc, pdf_path, fs_pdf, max_chars, text, book_name, all_blocks,
                 filtered_blocks, skipped_count, next_file, dir_exists,
                 mkdir_calls, out_files, write_log, exit_code, salvarVars>>

\* the loop's else branch: add the block to the current group
GroupAppend ==
  /\ pc = "group"
  /\ next_block < Len(filtered_blocks)
  /\ LET block == filtered_blocks[next_block + 1]
         block_size == Len(block[2])
     IN /\ ~NeedsNewGroup(current_size, block_size, max_chars, current_group)
        /\ current_group' = Append(current_group, block)
        /\ current_size' = current_size + block_size
  /\ next_block' = next_block + 1
  /\ UNCHANGED <<pc, pdf_path, fs_pdf, max_chars, text, book_name, all_blocks,
                 filtered_blocks, skipped_count, result, next_file, dir_exists,
                 mkdir_calls, out_files, write_log, exit_code, salvarVars>>

\* after the loop: add the last group if it is not empty, and return
GroupReturn ==
  /\ pc = "group"
  /\ next_block = Len(filtered_blocks)
  /\ result' = FinalResult(result, current_group)
  /\ pc' = "grouped"
  /\ UNCHANGED <<pdf_path, fs_pdf, max_chars, text, book_name, all_blocks,
                 filtered_blocks, skipped_count, next_block, current_group,
                 current_size, next_file, dir_exists, mkdir_calls, out_files,
                 write_log, exit_code, salvarVars>>

\* save_split_files: output_path.mkdir(exist_ok=True)
SaveMkdir ==
  /\ pc = "grouped"
  /\ dir_exists' = TRUE
  /\ mkdir_calls' = mkdir_calls + 1
  /\ next_file' = 1
  /\ pc' = "save"
  /\ UNCHANGED <<pdf_path, fs_pdf, max_chars, text, book_name, all_blocks,
                 filtered_blocks, skipped_count, next_block, current_group,
                 current_size, result, out_files, write_log, exit_code,
                 salvarVars>>

\* save_split_files: one iteration of the loop over the groups
SaveWriteFile ==
  /\ pc = "save"
  /\ next_file <= Len(result)
  /\ LET filename == OutputName(Stem(pdf_path), next_file)
         content == GroupContent(result[next_file])
     IN /\ out_files' = WriteFile(out_files, filename, content)
        /\ write_log' = Append(write_log, filename)
  /\ next_file' = next_file + 1
  /\ UNCHANGED <<pc, pdf_path, fs_pdf, max_chars, text, book_name, all_blocks,
                 filtered_blocks, skipped_count, next_block, current_group,
                 current_size, result, dir_exists, mkdir_calls, exit_code,
                 salvarVars>>

\* process_pdf returns and the interpreter exits 0
SaveDone ==
  /\ pc = "save"
  /\ next_file > Len(result)
  /\ pc' = "done"
  /\ exit_code' = 0
  /\ UNCHANGED <<pdfVars, salvarVars>>

Next ==
  \/ FileNotFound
  \/ NotAPdf
  \/ ExtractFails
  \/ ExtractText
  \/ DetectBookName
  \/ SplitIntoBlocks
  \/ FilterBlocks
  \/ NoValidBlocks
  \/ StartGrouping
  \/ GroupCloseAndStart
  \/ GroupAppend
  \/ GroupReturn
  \/ SaveMkdir
  \/ SaveWriteFile
  \/ SaveDone

Spec == Init /\ [][Next]_vars

----------------------------------------------------------------------------
(* split_blocks_by_size on every bounded block sequence *)

\* three blocks of 6000 characters
ExampleBlocks == [k \in 1..3 |-> Block(k, 6000)]

InitGrouper ==
  /\ pc = "group"
  /\ \/ /\ \E n \in 0..MaxBlocks : \E lens \in [1..n -> 0..MaxBlockLen] :
               filtered_blocks = BlocksOfLengths(lens)
        /\ max_chars \in 1..MaxChars
     \/ filtered_blocks = ExampleBlocks /\ max_chars = 10000
  /\ pdf_path = <<"a", ".", "p", "d", "f">>
  /\ fs_pdf = "ok"
  /\ dir_exists = FALSE
  /\ text = <<>>
  /\ book_name = <<>>
  /\ all_blocks = filtered_blocks
  /\ skipped_count = 0
  /\ next_block = 0
  /\ current_group = <<>>
  /\ current_size = 0
  /\ result = <<>>
  /\ next_file = 0
  /\ mkdir_calls = 0
  /\ out_files = NoFiles
  /\ write_log = <<>>
  /\ exit_code = -1
  /\ SalvarIdle

NextGrouper == GroupCloseAndStart \/ GroupAppend \/ GroupReturn

SpecGrouper == InitGrouper /\ [][NextGrouper]_vars

----------------------------------------------------------------------------
(* the filter loop on every bounded block sequence *)

InitFilter ==
  /\ pc = "filter"
  /\ \E n \in 0..MaxFilterBlocks : \E cs \in [1..n -> FilterContents] :
       all_blocks = BlocksOfContents(cs)
  /\ max_chars = DefaultMaxChars
  /\ pdf_path = <<"a", ".", "p", "d", "f">>
  /\ fs_pdf = "ok"
  /\ dir_exists = FALSE
  /\ text = <<>>
  /\ book_name = <<"J", "n">>
  /\ filtered_blocks = <<>>
  /\ skipped_count = 0
  /\ next_block = 0
  /\ current_group = <<>>
  /\ current_size = 0
  /\ result = <<>>
  /\ next_file = 0
  /\ mkdir_calls = 0
  /\ out_files = NoFiles
  /\ write_log = <<>>
  /\ exit_code = -1
  /\ SalvarIdle

NextFilter == FilterBlocks

SpecFilter == InitFilter /\ [][NextFilter]_vars

----------------------------------------------------------------------------
(* src/salvar_e_continuar.py *)

MaxJsonLen == 5

TotalArquivos == 91

\* characters of the content handed over
JsonChars == {"[", "]", ",", "1", " "}

\* item numbers: an ordinary one, a commit point, the last one
Numeros == {1, 10, 91}

JsonWhitespace == {" ", "\t", "\n", "\r"}

SkipWs(s, p) == p + Run(s, p, JsonWhitespace)

JsonError == [ok |-> FALSE]

RECURSIVE ParseValue(_, _)
RECURSIVE ParseItems(_, _, _)
\* the decoder's scan_once at offset p: a number or an array
ParseValue(s, p) ==
  IF p >= Len(s) THEN JsonError
  ELSE LET c == s[p + 1]
       IN IF c = "0" THEN [ok |-> TRUE, val |-> [num |-> <<"0">>], end |-> p + 1]
          ELSE IF c \in Digits
            THEN LET n == Run(s, p, Digits)
                 IN [ok |-> TRUE, val |-> [num |-> Slice(s, p, p + n)],
                     end |-> p + n]
          ELSE IF c = "["
            THEN LET q == SkipWs(s, p + 1)
                 IN IF q < Len(s) /\ s[q + 1] = "]"
                      THEN [ok |-> TRUE, val |-> [list |-> <<>>], end |-> q + 1]
                      ELSE ParseItems(s, q, <<>>)
          ELSE JsonError

\* the items of an array, from the item at offset p
ParseItems(s, p, acc) ==
  LET v == ParseValue(s, p)
  IN IF ~v.ok THEN JsonError
     ELSE LET q == SkipWs(s, v.end)
          IN IF q >= Len(s) THEN JsonError
             ELSE IF s[q + 1] = "]"
               THEN [ok |-> TRUE, val |-> [list |-> Append(acc, v.val)],
                     end |-> q + 1]
             ELSE IF s[q + 1] = ","
               THEN ParseItems(s, SkipWs(s, q + 1), Append(acc, v.val))
             ELSE JsonError

\* json.loads(s): [ok |-> FALSE] stands for JSONDecodeError
JsonLoads(s) ==
  LET v == ParseValue(s, SkipWs(s, 0))
  IN IF v.ok /\ SkipWs(s, v.end) = Len(s) THEN v ELSE JsonError

Indent(level) == [j \in 1..(2 * level) |-> " "]

RECURSIVE JsonDumps(_, _)
\* json.dumps(dados, ensure_ascii=False, indent=2)
JsonDumps(val, level) ==
  IF "num" \in DOMAIN val THEN val.num
  ELSE IF val.list = <<>> THEN <<"[", "]">>
  ELSE <<"[", "\n">>
       \o Join(<<",", "\n">>,
               [k \in DOMAIN val.list |->
                  Indent(level + 1) \o JsonDumps(val.list[k], level + 1)])
       \o <<"\n">> \o Indent(level) \o <<"]">>

\* f"{numero:03d}"
Pad3(n) ==
  LET d == Decimal(n)
  IN [j \in 1..(IF Len(d) < 3 THEN 3 - Len(d) ELSE 0) |-> "0"] \o d

\* f"bloco_{numero:03d}_traduzido.json"
NomeArquivo(n) ==
  <<"b","l","o","c","o","_">> \o Pad3(n)
  \o <<"_","t","r","a","d","u","z","i","d","o",".","j","s","o","n">>

\* a translation saved by an earlier run
OldContent == <<"1">>

InitSalvar ==
  /\ pc = "main"
  /\ numero \in Numeros
  /\ \E n \in 0..MaxJsonLen : json_content \in [1..n -> JsonChars]
  /\ traducoes \in {NoFiles, WriteFile(NoFiles, NomeArquivo(numero), OldContent)}
  /\ dir_exists = (traducoes # NoFiles)
  /\ commits = <<>>
  /\ invoked = 0
  /\ pdf_path = <<>>
  /\ fs_pdf = "missing"
  /\ max_chars = DefaultMaxChars
  /\ PdfLocalsInit

\* a variant of main that ignores what salvar_traducao returns
SalvarInvalidoGoesOn ==
  /\ pc = "main"
  /\ ~JsonLoads(json_content).ok
  /\ dir_exists' = TRUE
  /\ mkdir_calls' = mkdir_calls + 1
  /\ pc' = "commit"
  /\ UNCHANGED <<pdf_path, fs_pdf, max_chars, text, book_name, all_blocks,
                 filtered_blocks, skipped_count, next_block, current_group,
                 current_size, result, next_file, out_files, write_log,
                 exit_code, salvarVars>>

\* salvar_traducao returns False on invalid JSON and main exits 1
SalvarInvalido ==
  /\ pc = "main"
  /\ ~JsonLoads(json_content).ok
  /\ dir_exists' = TRUE
  /\ mkdir_calls' = mkdir_calls + 1
  /\ Exit(1)
  /\ UNCHANGED <<pdf_path, fs_pdf, max_chars, text, book_name, all_blocks,
                 filtered_blocks, skipped_count, next_block, current_group,
                 current_size, result, next_file, out_files, write_log,
                 salvarVars>>

\* salvar_traducao writes the re-indented JSON and returns True
SalvarValido ==
  /\ pc = "main"
  /\ JsonLoads(json_content).ok
  /\ dir_exists' = TRUE
  /\ mkdir_calls' = mkdir_calls + 1
  /\ LET dados == JsonLoads(json_content).val
         json_formatado == JsonDumps(dados, 0)
     IN traducoes' = WriteFile(traducoes, NomeArquivo(numero), json_formatado)
  /\ write_log' = Append(write_log, NomeArquivo(numero))
  /\ pc' = "commit"
  /\ UNCHANGED <<pdf_path, fs_pdf, max_chars, text, book_name, all_blocks,
                 filtered_blocks, skipped_count, next_block, current_group,
                 current_size, result, next_file, out_files, exit_code,
                 numero, json_content, commits, invoked>>

\* fazer_commit_se_necessario: numero % 10 != 0
SemCommit ==
  /\ pc = "commit"
  /\ numero % 10 # 0
  /\ pc' = "progress"
  /\ UNCHANGED <<pdfVars, exit_code, salvarVars>>

\* fazer_commit_se_necessario: git add and git commit succeed
CommitFeito ==
  /\ pc = "commit"
  /\ numero % 10 = 0
  /\ commits' = Append(commits, <<numero - 9, numero>>)
  /\ pc' = "progress"
  /\ UNCHANGED <<pdfVars, exit_code, numero, json_content, traducoes, invoked>>

\* fazer_commit_se_necessario: git fails, CalledProcessError is only reported
CommitFalhou ==
  /\ pc = "commit"
  /\ numero % 10 = 0
  /\ pc' = "progress"
  /\ UNCHANGED <<pdfVars, exit_code, salvarVars>>

\* restantes > 0: run tradutor_automatico.py for the next file
ProximoArquivo ==
  /\ pc = "progress"
  /\ TotalArquivos - numero > 0
  /\ invoked' = invoked + 1
  /\ pc' = "done"
  /\ exit_code' = 0
  /\ UNCHANGED <<pdfVars, numero, json_content, traducoes, commits>>

\* restantes <= 0: all translations are done
Concluido ==
  /\ pc = "progress"
  /\ ~(TotalArquivos - numero > 0)
  /\ pc' = "done"
  /\ exit_code' = 0
  /\ UNCHANGED <<pdfVars, salvarVars>>

NextSalvar ==
  \/ SalvarInvalido
  \/ SalvarValido
  \/ SemCommit
  \/ CommitFeito
  \/ CommitFalhou
  \/ ProximoArquivo
  \/ Concluido

SpecSalvar == InitSalvar /\ [][NextSalvar]_vars

----------------------------------------------------------------------------
(* Claims about split_blocks_by_size, under SpecGrouper *)

RECURSIVE TotalChars(_)
\* the sum of the Content lengths of a group
TotalChars(group) ==
  IF group = <<>> THEN 0 ELSE Len(Head(group)[2]) + TotalChars(Tail(group))

\* C1: the groups returned by split_blocks_by_size, concatenated in order,
\* are exactly the input block sequence (every block whole, once, in order);
\* during the loop the closed groups and the open one cover the blocks read.
C1_GroupsPartitionBlocks ==
  /\ pc = "group" =>
       Concat(result) \o current_group = SubSeq(filtered_blocks, 1, next_block)
  /\ pc = "grouped" => Concat(result) = filtered_blocks

\* C1 witness: a finished grouping with several groups, one of several blocks
C1_Witness ==
  /\ pc = "grouped"
  /\ Len(result) >= 2
  /\ \E g \in DOMAIN result : Len(result[g]) >= 2

\* C2: every returned group is non-empty and totals at most max_chars, unless
\* it is a single block that alone exceeds max_chars; the result is empty
\* only for an empty input.
C2_GroupsBounded ==
  pc = "grouped" =>
    /\ \A g \in DOMAIN result :
         /\ result[g] # <<>>
         /\ \/ TotalChars(result[g]) <= max_chars
            \/ Len(result[g]) = 1 /\ Len(result[g][1][2]) > max_chars
    /\ result = <<>> => filtered_blocks = <<>>

\* C2 witness: a result holding an oversized single block and a full group
C2_Witness ==
  /\ pc = "grouped"
  /\ \E g \in DOMAIN result :
       Len(result[g]) = 1 /\ Len(result[g][1][2]) > max_chars
  /\ \E g \in DOMAIN result :
       Len(result[g]) >= 2 /\ TotalChars(result[g]) = max_chars

\* one iteration of the loop is greedy: a new group is started before the
\* block iff the open group holds a block and would exceed max_chars with it
C9_Step ==
  (pc = "group" /\ next_block < Len(filtered_blocks)) =>
    LET b == filtered_blocks[next_block + 1]
        closes == /\ current_group # <<>>
                  /\ TotalChars(current_group) + Len(b[2]) > max_chars
    IN /\ closes =>
            /\ result' = Append(result, current_group)
            /\ current_group' = <<b>>
       /\ ~closes =>
            /\ result' = result
            /\ current_group' = Append(current_group, b)

\* the result is greedy: no group was closed while the next block still fit,
\* and three blocks of 6000 with max_chars = 10000 give [B1], [B2], [B3]
C9_Result ==
  pc = "grouped" =>
    /\ \A k \in 1..(Len(result) - 1) :
         TotalChars(result[k]) + Len(result[k + 1][1][2]) > max_chars
    /\ (filtered_blocks = ExampleBlocks /\ max_chars = 10000) =>
         result = << <<ExampleBlocks[1]>>, <<ExampleBlocks[2]>>,
                     <<ExampleBlocks[3]>> >>

\* C9: split_blocks_by_size is greedy, step by step and in its result.
C9_Greedy == [][C9_Step]_vars /\ []C9_Result

\* C9 witness: the 6000/6000/6000 example has been grouped
C9_Witness ==
  /\ pc = "grouped"
  /\ filtered_blocks = ExampleBlocks
  /\ max_chars = 10000
  /\ Len(result) = 3

----------------------------------------------------------------------------
(* Claims about detect_book_name and split_into_blocks, under Spec *)

\* every character of s at offsets a..b-1 is in S
AllIn(s, a, b, S) == \A i \in (a + 1)..b : s[i] \in S

\* digits, a colon and a digit start at offset d of s
ChapterVerseAt(s, d) ==
  \E e \in (d + 1)..(Len(s) - 2) :
    /\ AllIn(s, d, e, Digits)
    /\ s[e + 1] = ":"
    /\ s[e + 2] \in Digits

\* a well-formed reference starts at offset p of s and its book token
\* (optional numeral 1-3, optional whitespace, a word) ends before offset c
WellFormedRef(s, p, c) ==
  \E a \in {p, p + 1} :
    /\ a <= Len(s)
    /\ c < Len(s) /\ s[c] \in BookLetters /\ s[c + 1] \in Whitespace
    /\ a = p + 1 => s[p + 1] \in {"1", "2", "3"}
    /\ \E b \in a..(c - 1) :
         /\ AllIn(s, a, b, Whitespace)
         /\ AllIn(s, b, c, BookLetters)
         /\ \E d \in (c + 1)..Len(s) :
              /\ AllIn(s, c, d, Whitespace)
              /\ ChapterVerseAt(s, d)

HasWellFormedRef(s) ==
  \E p \in 0..Len(s) : \E c \in (p + 1)..Len(s) : WellFormedRef(s, p, c)

\* a reference to the book starts at offset p of s
IsRefStart(s, book, p) ==
  /\ p + Len(book) <= Len(s)
  /\ Slice(s, p, p + Len(book)) = book
  /\ \E d \in (p + Len(book) + 1)..Len(s) :
       /\ AllIn(s, p + Len(book), d, Whitespace)
       /\ ChapterVerseAt(s, d)

\* C5: on a text with a well-formed reference, detect_book_name returns the
\* non-empty, stripped book token of the first such reference.
C5_DetectFirstReference ==
  (pc = "segment" /\ HasWellFormedRef(text)) =>
    /\ book_name # <<>>
    /\ \E p \in 0..Len(text) : \E c \in (p + 1)..Len(text) :
         /\ WellFormedRef(text, p, c)
         /\ \A q \in 0..(p - 1) : \A e \in (q + 1)..Len(text) :
              ~WellFormedRef(text, q, e)
         /\ book_name = Strip(Slice(text, p, c))

\* C5 witness: two references, the first one after a blank that is stripped
C5_Witness ==
  /\ pc = "segment"
  /\ text = <<" ", "J", "n", " ", "1", ":", "1", "J", "n", " ", "1", ":", "1">>
  /\ book_name = <<"J", "n">>

\* C6: on a text without a reference pattern detect_book_name returns the
\* sentinel, and split_into_blocks with the sentinel returns no block.
C6_SentinelFindsNoBlocks ==
  (pc = "filter" /\ ~HasWellFormedRef(text)) =>
    /\ book_name = Libro
    /\ all_blocks = <<>>

\* C6 witness: the text names the sentinel next to a chapter:verse pair
C6_Witness ==
  /\ pc = "filter"
  /\ text = Libro \o <<"1", ":", "2">>
  /\ book_name = Libro
  /\ all_blocks = <<>>

\* C3: with at least one match there is one block per match, in order; the
\* unstripped spans run from each match to the next, the first starts at the
\* first reference, the last ends at the end of the text, without gap or
\* overlap; each Content is its span, stripped.
C3_BlocksTileText ==
  (pc = "filter" /\ all_blocks # <<>>) =>
    LET spans == BlockSpans(text, book_name)
        n == Len(all_blocks)
    IN /\ Len(spans) = n
       /\ \A i \in 1..n :
            /\ IsRefStart(text, book_name, spans[i].start_pos)
            /\ all_blocks[i][1] =
                 Slice(text, spans[i].start_pos,
                       spans[i].start_pos + Len(all_blocks[i][1]))
            /\ spans[i].start_pos + Len(all_blocks[i][1]) <= spans[i].end_pos
            /\ all_blocks[i][2] =
                 Strip(Slice(text, spans[i].start_pos, spans[i].end_pos))
       /\ \A q \in 0..(spans[1].start_pos - 1) : ~IsRefStart(text, book_name, q)
       /\ \A i \in 1..(n - 1) :
            /\ spans[i].start_pos < spans[i + 1].start_pos
            /\ spans[i].end_pos = spans[i + 1].start_pos
       /\ spans[n].end_pos = Len(text)
       /\ \A q \in 0..Len(text) :
            IsRefStart(text, book_name, q) =>
              \E i \in 1..n :
                /\ spans[i].start_pos <= q
                /\ q < spans[i].start_pos + Len(all_blocks[i][1])

\* C3 witness: several blocks, the first match not at the start of the text
C3_Witness ==
  /\ pc = "filter"
  /\ Len(all_blocks) >= 2
  /\ BlockSpans(text, book_name)[1].start_pos > 0

----------------------------------------------------------------------------
(* Claims about process_pdf and save_split_files, under Spec *)

\* a step of process_pdf taken with zero blocks left after filtering aborts
\* with exit status 1 and touches neither the output directory nor a file
C7_AbortStep ==
  (pc = "filtered" /\ filtered_blocks = <<>>) =>
    /\ pc' = "exit"
    /\ exit_code' = 1
    /\ UNCHANGED <<dir_exists, mkdir_calls, out_files, write_log, result>>

\* the detector, the segmenter, the filter and the grouper never end the run
C7_StagesGoOn ==
  pc \in {"detect", "segment", "filter", "group"} =>
    /\ pc' # "exit"
    /\ exit_code' = -1

\* an aborted run is over, and a run never groups or saves zero blocks
C7_NoOutputWithoutBlocks ==
  /\ pc = "exit" => exit_code = 1 /\ ~ENABLED Next
  /\ pc \in {"group", "grouped", "save", "done"} => filtered_blocks # <<>>
  /\ (pc \in {"filtered", "exit"} /\ filtered_blocks = <<>>) =>
       /\ mkdir_calls = 0
       /\ write_log = <<>>
       /\ out_files = NoFiles

\* C7: with zero blocks after filtering process_pdf aborts with a nonzero
\* exit before grouping and saving, creating no directory and writing no
\* file; the stages below it never abort.
C7_AbortsBeforeGrouping ==
  /\ [][C7_AbortStep]_vars
  /\ [][C7_StagesGoOn]_vars
  /\ []C7_NoOutputWithoutBlocks

\* C7 witness: every block found was filtered out and the run has aborted
C7_Witness ==
  /\ pc = "exit"
  /\ all_blocks # <<>>
  /\ skipped_count = Len(all_blocks)
  /\ exit_code = 1

\* the offset of the k-th Content in the file written for a group
ContentOffset(group, k) == TotalChars(SubSeq(group, 1, k - 1)) + 2 * (k - 1)

\* content is the group's Contents in order, two line breaks between them
IsJoinedGroup(content, group) ==
  /\ Len(content) = TotalChars(group) + 2 * (Len(group) - 1)
  /\ \A k \in DOMAIN group :
       LET off == ContentOffset(group, k)
       IN /\ Slice(content, off, off + Len(group[k][2])) = group[k][2]
          /\ k > 1 => Slice(content, off - 2, off) = <<"\n", "\n">>

\* <base>_<i>.txt for i in 1..9
ExpectedName(base, i) ==
  base \o <<"_", <<"1","2","3","4","5","6","7","8","9">>[i], ".", "t", "x", "t">>

\* C8: a successful run with N groups has written exactly N files, the i-th
\* named <base>_<i>.txt and holding the i-th group's Contents joined by a
\* double line break.
C8_OneFilePerGroup ==
  pc = "done" =>
    LET N == Len(result)
        base == Stem(pdf_path)
    IN /\ Len(write_log) = N
       /\ \A i \in 1..N : write_log[i] = ExpectedName(base, i)
       /\ DOMAIN out_files = {ExpectedName(base, i) : i \in 1..N}
       /\ Cardinality(DOMAIN out_files) = N
       /\ \A i \in 1..N :
            IsJoinedGroup(out_files[ExpectedName(base, i)], result[i])

\* C8 witness: a finished run that wrote two files, one for a group of two
C8_Witness ==
  /\ pc = "done"
  /\ Len(result) = 2
  /\ Len(result[1]) = 2
  /\ Cardinality(DOMAIN out_files) = 2

----------------------------------------------------------------------------
(* Claims about the filter, under SpecFilter *)

\* s holds w at offset p, compared without regard to case
HoldsAt(s, p, w) ==
  /\ p + Len(w) <= Len(s)
  /\ \A i \in DOMAIN w : LowerChar(s[p + i]) = w[i]

AdminWords ==
  { <<"d","e","s","c","r","i","p","c","i","ó","n">>,
    <<"d","e","s","c","r","i","p","c","i","o","n">>,
    <<"i","n","t","r","o","d","u","c","c","i","ó","n">>,
    <<"i","n","t","r","o","d","u","c","c","i","o","n">> }

General == <<"g","e","n","e","r","a","l">>

\* the content holds "Descripción general" or "Introducción general" as a
\* substring, in any case, with or without the accent
ContainsPhrase(content) ==
  \E w \in AdminWords : \E p \in 0..Len(content) :
    HoldsAt(content, p, w \o <<" ">> \o General)

\* the same with any run of one or more whitespace characters between the
\* two words
ContainsPhraseAnyWhitespace(content) ==
  \E w \in AdminWords : \E p \in 0..Len(content) :
    /\ HoldsAt(content, p, w)
    /\ \E q \in (p + Len(w) + 1)..Len(content) :
         /\ AllIn(content, p + Len(w), q, Whitespace)
         /\ HoldsAt(content, q, General)

KeptBlock(b) == ~ContainsPhrase(b[2])

KeptBlockAnyWhitespace(b) == ~ContainsPhraseAnyWhitespace(b[2])

\* C4 as claimed: the filter keeps, in order, exactly the blocks whose Content
\* does not hold one of the two phrases as a substring.
C4_FilterBySubstring ==
  pc = "filtered" => filtered_blocks = SelectSeq(all_blocks, KeptBlock)

\* C4 as amended: the filter keeps, in order, exactly the blocks whose Content
\* does not hold one of the two phrases with any run of whitespace (a blank,
\* a line break, several of them) between its two words; it counts the rest.
C4_FilterByPhrase ==
  pc = "filtered" =>
    /\ filtered_blocks = SelectSeq(all_blocks, KeptBlockAnyWhitespace)
    /\ skipped_count = Len(all_blocks) - Len(filtered_blocks)

\* C4 witness: of two blocks the filter dropped the first, whose phrase is
\* broken over a line, and kept the second
C4_Witness ==
  /\ pc = "filtered"
  /\ Len(all_blocks) = 2
  /\ filtered_blocks = <<all_blocks[2]>>
  /\ ContainsPhraseAnyWhitespace(all_blocks[1][2])
  /\ ~ContainsPhrase(all_blocks[1][2])

----------------------------------------------------------------------------
(* Claims about salvar_e_continuar, under SpecSalvar *)

\* the run is over: content that parses was saved under the name of its item
\* number and the step exited 0; content that does not parse left no file
\* written, no commit, no run of the next-file step, and exit status 1
C10_Outcome ==
  pc \in {"done", "exit"} =>
    IF JsonLoads(json_content).ok
      THEN /\ exit_code = 0
           /\ write_log = <<NomeArquivo(numero)>>
           /\ NomeArquivo(numero) \in DOMAIN traducoes
           /\ JsonLoads(traducoes[NomeArquivo(numero)]).ok
           /\ JsonLoads(traducoes[NomeArquivo(numero)]).val
                = JsonLoads(json_content).val
      ELSE /\ exit_code = 1
           /\ write_log = <<>>
           /\ commits = <<>>
           /\ invoked = 0

\* content that does not parse never changes the translations directory
C10_NoWriteStep ==
  ~JsonLoads(json_content).ok =>
    /\ traducoes' = traducoes
    /\ commits' = commits
    /\ invoked' = invoked

\* C10: the content is saved under the file name of its item number iff it
\* parses as JSON; otherwise nothing is written or overwritten, no commit is
\* made, the next-file step is not run and the exit status is nonzero.
C10_SavedIffValidJson == []C10_Outcome /\ [][C10_NoWriteStep]_vars

\* C10 witness: invalid content for item 10 was refused, the old file is kept
C10_Witness ==
  /\ pc = "exit"
  /\ numero = 10
  /\ json_content = <<"[", "1", ",", "1", ",">>
  /\ traducoes = WriteFile(NoFiles, NomeArquivo(10), OldContent)
  /\ exit_code = 1

====
